---------------------------- MODULE Spec2Model ----------------------------
(***************************************************************************)
(* Model of analyze_temps.py: the run of main() over a fetched CSV table   *)
(* (normalisation, timeframe filter, summary statistics, trend fit), and   *)
(* the value-field extraction of line 163 as a pure function.              *)
(*                                                                         *)
(* Timestamps are whole hours since an epoch and are taken to be           *)
(* well-formed (pd.to_datetime succeeds on them).  A value field is a      *)
(* sequence of one-character strings.  A parsed value is an exact decimal  *)
(* [m, f] standing for m / 10^f.                                           *)
(***************************************************************************)
EXTENDS Integers, Sequences, FiniteSets

VARIABLES csv,         \* rows delivered by read_csv: [t, f] (timestamp, value field)
          START_TIME,  \* config.START_TIME: [present, t]
          END_TIME,    \* config.END_TIME:   [present, t]
          pc,          \* position of main()
          df,          \* main's local df: rows [t, temp]
          stats,       \* what analyze_data returned
          fit,         \* what fit_trend computed and returned
          log,         \* tags of the messages emitted
          calls,       \* functions invoked by main in this run
          failedAt,    \* the step whose exception reached main's except branch
          field,       \* extraction check: the value field
          extracted    \* extraction check: result of str.extract and astype(float)

vars == <<csv, START_TIME, END_TIME, pc, df, stats, fit, log, calls, failedAt,
          field, extracted>>

----------------------------------------------------------------------------
(* Bounds *)

MaxRows == 3

MaxTime == 2

MaxValLen == 5

(* Program constant: seconds in an hour (analyze_data, line 58) *)
SecondsPerHour == 3600

----------------------------------------------------------------------------
(* Arithmetic helpers *)

RECURSIVE Pow10(_)
Pow10(n) == IF n = 0 THEN 1 ELSE 10 * Pow10(n - 1)

RECURSIVE SumSeq(_)
SumSeq(s) == IF s = <<>> THEN 0 ELSE Head(s) + SumSeq(Tail(s))

SetMin(S) == CHOOSE x \in S : \A y \in S : x <= y

SetMax(S) == CHOOSE x \in S : \A y \in S : x >= y

----------------------------------------------------------------------------
(* Value extraction: df["CPU_Temp"].str.extract(r'([\d\.]+)').astype(float) *)

Digits == {"2", "4"}

Alphabet == Digits \cup {".", "C", "-"}

IsNumChar(c) == c \in Digits \/ c = "."

DigitVal(c) == IF c = "2" THEN 2 ELSE 4

\* Position of the first character the class [\d\.] matches, 0 when none.
FirstNumPos(s) ==
    IF \E i \in 1..Len(s) : IsNumChar(s[i])
    THEN SetMin({i \in 1..Len(s) : IsNumChar(s[i])})
    ELSE 0

\* The greedy + extends the match while the class keeps matching.
RunEnd(s, i) ==
    SetMax({j \in i..Len(s) : \A k \in i..j : IsNumChar(s[k])})

\* Series.str.extract: the first match of the group, or a missing value.
StrExtract(s) ==
    LET i == FirstNumPos(s)
    IN  IF i = 0
        THEN [match |-> FALSE, text |-> <<>>]
        ELSE [match |-> TRUE, text |-> SubSeq(s, i, RunEnd(s, i))]

DotCount(s) == Cardinality({i \in 1..Len(s) : s[i] = "."})

DigitCount(s) == Cardinality({i \in 1..Len(s) : s[i] \in Digits})

HasDigit(s) == DigitCount(s) > 0

\* float() of a text of digits and dots: one number with at most one point.
FloatOk(s) == DigitCount(s) >= 1 /\ DotCount(s) <= 1

RECURSIVE Mantissa(_)
Mantissa(s) ==
    IF s = <<>> THEN 0
    ELSE LET c == s[Len(s)]
             r == SubSeq(s, 1, Len(s) - 1)
         IN  IF c = "." THEN Mantissa(r) ELSE 10 * Mantissa(r) + DigitVal(c)

FracDigits(s) ==
    IF DotCount(s) = 0 THEN 0
    ELSE Len(s) - SetMin({i \in 1..Len(s) : s[i] = "."})

\* astype(float) on one extracted cell: a missing value stays NaN, a text is
\* converted by float(), which raises ValueError on a text that is no number.
AsFloat(e) ==
    IF ~e.match THEN [kind |-> "nan", m |-> 0, f |-> 0]
    ELSE IF FloatOk(e.text)
         THEN [kind |-> "num", m |-> Mantissa(e.text), f |-> FracDigits(e.text)]
         ELSE [kind |-> "ValueError", m |-> 0, f |-> 0]

ParseValue(s) == AsFloat(StrExtract(s))

----------------------------------------------------------------------------
(* Inputs *)

SampleFields ==
    { <<"-", "2", "C">>, <<"4", ".", "2", "C">>, <<"C">>,
      <<"4", ".", "2", ".", "4">> }

FracWidth == SetMax({FracDigits(StrExtract(s).text) : s \in SampleFields})

\* A parsed value on the common fixed-point scale 10^FracWidth.
Fixed(v) == v.m * Pow10(FracWidth - v.f)

Times == 0..MaxTime

RawRows == [t : Times, f : SampleFields]

Tables == UNION {[1..n -> RawRows] : n \in 1..MaxRows}

Bounds == {[present |-> FALSE, t |-> 0]} \cup {[present |-> TRUE, t |-> x] : x \in Times}

AllFields == UNION {[1..n -> Alphabet] : n \in 1..MaxValLen}

NoStats == [returned |-> FALSE, mean |-> [num |-> 0, den |-> 0],
            var |-> [num |-> 0, den |-> 0], rise |-> [num |-> 0, den |-> 0],
            hours |-> <<>>]

NoFit == [called |-> FALSE, returned |-> FALSE, solver |-> "none",
          model |-> "none", warning |-> FALSE,
          p0 |-> [a |-> 0, b |-> 0, nan |-> FALSE, c |-> [finite |-> FALSE, num |-> 0, den |-> 0]],
          slope |-> [num |-> 0, den |-> 0], secs |-> <<>>]

NoExtract == [done |-> FALSE, match |-> FALSE, text |-> <<>>,
              value |-> [kind |-> "nan", m |-> 0, f |-> 0]]

----------------------------------------------------------------------------
(* Series helpers *)

MinTime(d) == SetMin({d[i].t : i \in 1..Len(d)})

IsNaN(v) == v.kind = "nan"

AllParsed(d) == \A i \in 1..Len(d) : ~IsNaN(d[i].temp)

ZeroSpan(d) == \A i, j \in 1..Len(d) : d[i].t = d[j].t

\* (df["Datetime"] - df["Datetime"].min()).dt.total_seconds()
ElapsedSecondsFromInput(d) ==
    [i \in 1..Len(d) |-> (d[i].t - SetMin({csv[j].t : j \in 1..Len(csv)})) * SecondsPerHour]

ElapsedSeconds(d) ==
    [i \in 1..Len(d) |-> (d[i].t - MinTime(d)) * SecondsPerHour]

\* ... / 3600
ElapsedHours(d) ==
    LET s == ElapsedSeconds(d)
    IN  [i \in 1..Len(d) |-> s[i] \div SecondsPerHour]

Temps(d) == [i \in 1..Len(d) |-> d[i].temp]

----------------------------------------------------------------------------
(* main, lines 162-163: normalisation of the fetched table *)

Normalized(rows) ==
    LET vals == [i \in 1..Len(rows) |-> ParseValue(rows[i].f)]
    IN  IF \E i \in 1..Len(rows) : vals[i].kind = "ValueError"
        THEN [ok |-> FALSE, frame |-> <<>>]
        ELSE [ok |-> TRUE,
              frame |-> [i \in 1..Len(rows) |-> [t |-> rows[i].t, temp |-> vals[i]]]]

----------------------------------------------------------------------------
(* filter_timeframe *)

\* A slip that compares a bound with the strict operator.
FilterTimeframeExclusive(d) ==
    LET a == IF START_TIME.present
             THEN SelectSeq(d, LAMBDA r : r.t > START_TIME.t) ELSE d
    IN  IF END_TIME.present
        THEN SelectSeq(a, LAMBDA r : r.t < END_TIME.t) ELSE a

\* A slip that compares the bounds with the time elapsed since the series'
\* own first sample instead of the absolute timestamp.
FilterTimeframeElapsed(d) ==
    LET a == IF START_TIME.present /\ d # <<>>
             THEN SelectSeq(d, LAMBDA r : r.t - MinTime(d) >= START_TIME.t) ELSE d
    IN  IF END_TIME.present /\ a # <<>>
        THEN SelectSeq(a, LAMBDA r : r.t - MinTime(a) <= END_TIME.t) ELSE a

FilterTimeframe(d) ==
    LET a == IF START_TIME.present
             THEN SelectSeq(d, LAMBDA r : r.t >= START_TIME.t) ELSE d
    IN  IF END_TIME.present
        THEN SelectSeq(a, LAMBDA r : r.t <= END_TIME.t) ELSE a

\* main, line 167: the test that ends the run when nothing was retained.
NoDataOffByOne(d) == Len(d) = 1

NoData(d) == Len(d) = 0

----------------------------------------------------------------------------
(* np.polyfit(x, y, 1) *)

\* Slope of the least-squares line as the fraction num / den.
LstsqSlope(x, y) ==
    LET n   == Len(x)
        sx  == SumSeq(x)
        sy  == SumSeq([i \in 1..n |-> Fixed(y[i])])
        sxy == SumSeq([i \in 1..n |-> x[i] * Fixed(y[i])])
        sxx == SumSeq([i \in 1..n |-> x[i] * x[i]])
    IN  [num |-> n * sxy - sx * sy, den |-> n * sxx - sx * sx]

\* A polyfit that replaces a zero column scale by 1 (as numpy.polynomial's
\* fit does) and so answers a zero-span series with a slope of 0.
PolyfitGuardedScale(x, y) ==
    IF Len(x) = 0 THEN [kind |-> "TypeError", num |-> 0, den |-> 0]
    ELSE IF \E i \in 1..Len(y) : IsNaN(y[i]) THEN [kind |-> "nan", num |-> 0, den |-> 0]
    ELSE IF LstsqSlope(x, y).den = 0 THEN [kind |-> "coeffs", num |-> 0, den |-> 1]
    ELSE [kind |-> "coeffs", num |-> LstsqSlope(x, y).num, den |-> LstsqSlope(x, y).den]

\* np.polyfit builds the Vandermonde matrix [x, 1], divides each column by
\* its norm and solves by lstsq.  An empty x is refused (TypeError).  When
\* every x is 0 the first column's norm is 0, the division leaves NaN in the
\* matrix and lstsq raises LinAlgError (the SVD does not converge).  A NaN in
\* y alone passes through to NaN coefficients.
Polyfit(x, y) ==
    IF Len(x) = 0 THEN [kind |-> "TypeError", num |-> 0, den |-> 0]
    ELSE IF \A i \in 1..Len(x) : x[i] = 0 THEN [kind |-> "LinAlgError", num |-> 0, den |-> 0]
    ELSE IF \E i \in 1..Len(y) : IsNaN(y[i]) THEN [kind |-> "nan", num |-> 0, den |-> 0]
    ELSE IF LstsqSlope(x, y).den = 0 THEN [kind |-> "rank_deficient", num |-> 0, den |-> 0]
    ELSE [kind |-> "coeffs", num |-> LstsqSlope(x, y).num, den |-> LstsqSlope(x, y).den]

PolyfitRaises(r) == r.kind \in {"TypeError", "LinAlgError"}

----------------------------------------------------------------------------
(* analyze_data *)

\* The values pandas' mean() and var() see: missing values are skipped.
Present(d) == SelectSeq(Temps(d), LAMBDA v : ~IsNaN(v))

\* df["CPU_Temp"].mean(): num / den, 0/0 standing for NaN.
MeanTemp(d) ==
    LET p == Present(d)
    IN  IF p = <<>> THEN [num |-> 0, den |-> 0]
        ELSE [num |-> SumSeq([i \in 1..Len(p) |-> Fixed(p[i])]), den |-> Len(p)]

\* df["CPU_Temp"].var(): the sample variance (N - 1), NaN below two values.
VarTemp(d) ==
    LET p  == Present(d)
        n  == Len(p)
        s  == SumSeq([i \in 1..n |-> Fixed(p[i])])
        ss == SumSeq([i \in 1..n |-> Fixed(p[i]) * Fixed(p[i])])
    IN  IF n < 2 THEN [num |-> 0, den |-> 0]
        ELSE [num |-> n * ss - s * s, den |-> n * (n - 1)]

AnalyzeDataResult(d) ==
    LET h == ElapsedHours(d)
        c == Polyfit(h, Temps(d))
    IN  IF PolyfitRaises(c)
        THEN [returned |-> FALSE, mean |-> MeanTemp(d), var |-> VarTemp(d),
              rise |-> [num |-> 0, den |-> 0], hours |-> h]
        ELSE [returned |-> TRUE, mean |-> MeanTemp(d), var |-> VarTemp(d),
              rise |-> [num |-> c.num, den |-> c.den], hours |-> h]

----------------------------------------------------------------------------
(* fit_trend *)

\* A slip in the sign of the amplitude guess.
InitialGuessSwapped(d) ==
    LET v == {Fixed(d[i].temp) : i \in 1..Len(d)}
        s == SumSeq(ElapsedSeconds(d))
    IN  [a |-> IF AllParsed(d) THEN SetMax(v) ELSE 0,
         b |-> IF AllParsed(d) THEN SetMin(v) - SetMax(v) ELSE 0,
         nan |-> ~AllParsed(d),
         c |-> IF s = 0 THEN [finite |-> FALSE, num |-> 0, den |-> 0]
                        ELSE [finite |-> TRUE, num |-> Len(d), den |-> s]]

\* a_guess = max(temps), b_guess = max(temps) - min(temps) (NaN as soon as a
\* value is NaN), c_guess = 1 / mean(elapsed seconds): the fraction n / sum,
\* and not finite (numpy's division by a zero float) when the sum is 0.
InitialGuess(d) ==
    LET v == {Fixed(d[i].temp) : i \in 1..Len(d)}
        s == SumSeq(ElapsedSeconds(d))
    IN  [a |-> IF AllParsed(d) THEN SetMax(v) ELSE 0,
         b |-> IF AllParsed(d) THEN SetMax(v) - SetMin(v) ELSE 0,
         nan |-> ~AllParsed(d),
         c |-> IF s = 0 THEN [finite |-> FALSE, num |-> 0, den |-> 0]
                        ELSE [finite |-> TRUE, num |-> Len(d), den |-> s]]

\* How the call of curve_fit can end.  It refuses NaN data (check_finite) and
\* a start point whose residuals are not finite with ValueError; otherwise the
\* bounded least-squares solver either converges or curve_fit raises
\* RuntimeError ("Optimal parameters not found").
CurveFitOutcomes(d) ==
    IF ~AllParsed(d) \/ ~InitialGuess(d).c.finite
    THEN {"ValueError"}
    ELSE {"converged", "RuntimeError"}

\* fit_trend with the fallback taken without the warning.
FitTrendSilentFallback(d, outcome) ==
    LET lin == Polyfit(ElapsedSeconds(d), Temps(d))
        ret == outcome = "converged" \/ (outcome = "RuntimeError" /\ ~PolyfitRaises(lin))
    IN  [called |-> TRUE, returned |-> ret, solver |-> outcome,
         model |-> IF ~ret THEN "none"
                   ELSE IF outcome = "converged" THEN "exponential" ELSE "linear",
         warning |-> FALSE,
         p0 |-> InitialGuess(d),
         slope |-> IF ret /\ outcome = "RuntimeError"
                   THEN [num |-> lin.num, den |-> lin.den] ELSE [num |-> 0, den |-> 0],
         secs |-> ElapsedSeconds(d)]

\* fit_trend, given how curve_fit ended: only RuntimeError is caught; the
\* handler warns, fits the line and returns it.
FitTrendResult(d, outcome) ==
    LET lin == Polyfit(ElapsedSeconds(d), Temps(d))
        ret == outcome = "converged" \/ (outcome = "RuntimeError" /\ ~PolyfitRaises(lin))
    IN  [called |-> TRUE, returned |-> ret, solver |-> outcome,
         model |-> IF ~ret THEN "none"
                   ELSE IF outcome = "converged" THEN "exponential" ELSE "linear",
         warning |-> outcome = "RuntimeError",
         p0 |-> InitialGuess(d),
         slope |-> IF ret /\ outcome = "RuntimeError"
                   THEN [num |-> lin.num, den |-> lin.den] ELSE [num |-> 0, den |-> 0],
         secs |-> ElapsedSeconds(d)]

----------------------------------------------------------------------------
(* The run of main() *)

Init ==
    /\ csv \in Tables
    /\ START_TIME \in Bounds
    /\ END_TIME \in Bounds
    /\ pc = "start"
    /\ df = <<>>
    /\ stats = NoStats
    /\ fit = NoFit
    /\ log = {}
    /\ calls = {}
    /\ failedAt = "none"
    /\ field = <<>>
    /\ extracted = NoExtract

\* main's except branch: the error is logged and the exception re-raised.
Fail(step) ==
    /\ pc' = "failed"
    /\ failedAt' = step
    /\ log' = log \cup {"analysis_failed"}

\* read_remote_file returns the table (df holds it unparsed until line 163).
ReadRemoteFile ==
    /\ pc = "start"
    /\ pc' = "read"
    /\ UNCHANGED <<csv, START_TIME, END_TIME, df, stats, fit, log, calls, failedAt,
                   field, extracted>>

\* read_remote_file fails (connection, file): it logs and re-raises.
ReadRemoteFileFails ==
    /\ pc = "start"
    /\ pc' = "failed"
    /\ failedAt' = "read"
    /\ log' = log \cup {"read_failed", "analysis_failed"}
    /\ UNCHANGED <<csv, START_TIME, END_TIME, df, stats, fit, calls, field, extracted>>

\* Lines 162-163.
Normalize ==
    /\ pc = "read"
    /\ LET n == Normalized(csv)
       IN  IF n.ok
           THEN /\ df' = n.frame
                /\ pc' = "normalized"
                /\ UNCHANGED <<log, failedAt>>
           ELSE /\ Fail("normalize")
                /\ UNCHANGED df
    /\ UNCHANGED <<csv, START_TIME, END_TIME, stats, fit, calls, field, extracted>>

\* Line 165.
Filter ==
    /\ pc = "normalized"
    /\ df' = FilterTimeframe(df)
    /\ pc' = "filtered"
    /\ calls' = calls \cup {"filter_timeframe"}
    /\ UNCHANGED <<csv, START_TIME, END_TIME, stats, fit, log, failedAt, field, extracted>>

\* Lines 167-169: nothing retained, the run reports it and returns.
ZeroData ==
    /\ pc = "filtered"
    /\ NoData(df)
    /\ log' = log \cup {"zero_data"}
    /\ pc' = "done"
    /\ UNCHANGED <<csv, START_TIME, END_TIME, df, stats, fit, calls, failedAt,
                   field, extracted>>

\* Line 171.
AnalyzeData ==
    /\ pc = "filtered"
    /\ ~NoData(df)
    /\ calls' = calls \cup {"analyze_data"}
    /\ stats' = AnalyzeDataResult(df)
    /\ IF stats'.returned
       THEN pc' = "analyzed" /\ UNCHANGED <<log, failedAt>>
       ELSE Fail("analyze")
    /\ UNCHANGED <<csv, START_TIME, END_TIME, df, fit, field, extracted>>

\* Line 172: plot_data, which calls fit_trend for the trend line.
PlotData ==
    /\ pc = "analyzed"
    /\ calls' = calls \cup {"plot_data", "fit_trend"}
    /\ \E outcome \in CurveFitOutcomes(df) :
          /\ fit' = FitTrendResult(df, outcome)
          /\ IF fit'.returned
             THEN /\ pc' = "plotted"
                  /\ log' = log \cup (IF fit'.warning THEN {"fit_warning"} ELSE {})
                  /\ UNCHANGED failedAt
             ELSE /\ pc' = "failed"
                  /\ failedAt' = "fit"
                  /\ log' = log \cup {"analysis_failed"}
                          \cup (IF fit'.warning THEN {"fit_warning"} ELSE {})
    /\ UNCHANGED <<csv, START_TIME, END_TIME, df, stats, field, extracted>>

\* Line 173.
Complete ==
    /\ pc = "plotted"
    /\ log' = log \cup {"success"}
    /\ pc' = "done"
    /\ UNCHANGED <<csv, START_TIME, END_TIME, df, stats, fit, calls, failedAt,
                   field, extracted>>

Next ==
    \/ ReadRemoteFile
    \/ ReadRemoteFileFails
    \/ Normalize
    \/ Filter
    \/ ZeroData
    \/ AnalyzeData
    \/ PlotData
    \/ Complete

Spec == Init /\ [][Next]_vars

----------------------------------------------------------------------------
(* The value extraction of line 163 applied to one field *)

InitExtract ==
    /\ field \in AllFields
    /\ extracted = NoExtract
    /\ csv = <<>>
    /\ START_TIME = [present |-> FALSE, t |-> 0]
    /\ END_TIME = [present |-> FALSE, t |-> 0]
    /\ pc = "extract"
    /\ df = <<>>
    /\ stats = NoStats
    /\ fit = NoFit
    /\ log = {}
    /\ calls = {}
    /\ failedAt = "none"

Extract ==
    /\ pc = "extract"
    /\ ~extracted.done
    /\ LET e == StrExtract(field)
       IN  extracted' = [done |-> TRUE, match |-> e.match, text |-> e.text,
                         value |-> AsFloat(e)]
    /\ UNCHANGED <<csv, START_TIME, END_TIME, pc, df, stats, fit, log, calls,
                   failedAt, field>>

NextExtract == Extract

SpecExtract == InitExtract /\ [][NextExtract]_vars

----------------------------------------------------------------------------
(* Properties *)

\* The run has passed filter_timeframe.
Filtered ==
    \/ pc \in {"filtered", "analyzed", "plotted", "done"}
    \/ pc = "failed" /\ failedAt \in {"analyze", "fit"}

\* The normalised, unfiltered series of this run.
InputSeries == Normalized(csv).frame

InWindow(r) ==
    /\ (~START_TIME.present \/ r.t >= START_TIME.t)
    /\ (~END_TIME.present \/ r.t <= END_TIME.t)

RECURSIVE KeptInOrder(_)
KeptInOrder(s) ==
    IF s = <<>> THEN <<>>
    ELSE IF InWindow(Head(s)) THEN <<Head(s)>> \o KeptInOrder(Tail(s))
    ELSE KeptInOrder(Tail(s))

\* C1: whenever fit_trend was called and the call of the exponential solver
\* did not succeed, fit_trend returned the linear trend and main did not end
\* in its failure branch (and a finished run logged its success).
C1_SolverFailureAbsorbed ==
    (fit.called /\ fit.solver # "converged")
        => /\ fit.returned
           /\ fit.model = "linear"
           /\ pc \in {"plotted", "done"}
           /\ failedAt = "none"
           /\ (pc = "done" => "success" \in log)

\* C2: the series filter_timeframe returns holds exactly the samples inside
\* the inclusive window, in their original order; samples at start or at end
\* are kept, and without bounds the series is returned unchanged.
C2_FilterExact ==
    Filtered =>
        /\ df = KeptInOrder(InputSeries)
        /\ \A i \in 1..Len(InputSeries) :
              (/\ START_TIME.present
               /\ InputSeries[i].t = START_TIME.t
               /\ (END_TIME.present => START_TIME.t <= END_TIME.t))
                  => \E j \in 1..Len(df) : df[j] = InputSeries[i]
        /\ \A i \in 1..Len(InputSeries) :
              (/\ END_TIME.present
               /\ InputSeries[i].t = END_TIME.t
               /\ (START_TIME.present => START_TIME.t <= END_TIME.t))
                  => \E j \in 1..Len(df) : df[j] = InputSeries[i]
        /\ (~START_TIME.present /\ ~END_TIME.present => df = InputSeries)

C2_Witness ==
    /\ pc = "filtered"
    /\ START_TIME.present /\ END_TIME.present
    /\ START_TIME.t < END_TIME.t
    /\ Len(df) < Len(InputSeries)
    /\ \E i, j \in 1..Len(df) : df[i].t = START_TIME.t /\ df[j].t = END_TIME.t

\* C3: a run whose filter retained nothing ends in the zero-data outcome:
\* the zero-data report is logged, analyze_data, plot_data and fit_trend are
\* never called, no exception reaches main's except branch and the success
\* message is not logged.
C3_ZeroDataOutcome ==
    (Filtered /\ df = <<>>) =>
        /\ pc \in {"filtered", "done"}
        /\ calls \cap {"analyze_data", "plot_data", "fit_trend"} = {}
        /\ failedAt = "none"
        /\ "analysis_failed" \notin log
        /\ "success" \notin log
        /\ (pc = "done" => "zero_data" \in log)

C3_Witness ==
    /\ pc = "done"
    /\ df = <<>>
    /\ "zero_data" \in log
    /\ START_TIME.present

\* C4: when a row's value field holds no digit, the run aborts in the
\* normalisation: it never gets past it, and filtering, statistics and the
\* trend fit are never performed.
C4_NoDigitAborts ==
    (\E i \in 1..Len(csv) : ~HasDigit(csv[i].f)) =>
        /\ pc \in {"start", "read", "failed"}
        /\ (pc = "failed" => failedAt \in {"read", "normalize"})
        /\ calls = {}

\* C5: for a non-empty series of zero time span analyze_data raises: the run
\* ends in main's failure branch at that step and no rise-per-hour value is
\* returned.
C5_ZeroSpanFails ==
    (Filtered /\ df # <<>> /\ ZeroSpan(df)) =>
        /\ ~AnalyzeDataResult(df).returned
        /\ ("analyze_data" \in calls =>
               /\ pc = "failed"
               /\ failedAt = "analyze"
               /\ ~stats.returned
               /\ "analysis_failed" \in log)

C5_Witness ==
    /\ "analyze_data" \in calls
    /\ Len(df) >= 2
    /\ ZeroSpan(df)
    /\ AllParsed(df)
    /\ pc = "failed"

\* C6: for a value field that holds a digit, the extracted text holds at most
\* one decimal point and converts to a number.
C6_ExtractConverts ==
    (extracted.done /\ HasDigit(field)) =>
        /\ extracted.match
        /\ DotCount(extracted.text) <= 1
        /\ extracted.value.kind = "num"

\* C7: filtering the filtered series again with the same bounds changes
\* nothing.
C7_FilterIdempotent ==
    Filtered => FilterTimeframe(df) = df

C7_Witness ==
    /\ pc = "filtered"
    /\ START_TIME.present
    /\ df # <<>>
    /\ Len(df) < Len(InputSeries)

\* C8: the elapsed hours of analyze_data and the elapsed seconds of fit_trend
\* are measured from the minimum timestamp of the same filtered series: they
\* cover every sample of it, are never negative, have 0 as their smallest
\* value, and agree sample by sample.
C8_SharedOrigin ==
    /\ ("analyze_data" \in calls /\ df # <<>>) =>
          /\ df = KeptInOrder(InputSeries)
          /\ Len(stats.hours) = Len(df)
          /\ \A i \in 1..Len(df) :
                stats.hours[i] >= 0 /\ stats.hours[i] = df[i].t - MinTime(df)
          /\ \E i \in 1..Len(df) : stats.hours[i] = 0
    /\ fit.called =>
          /\ df = KeptInOrder(InputSeries)
          /\ Len(fit.secs) = Len(df)
          /\ \A i \in 1..Len(df) :
                /\ fit.secs[i] >= 0
                /\ fit.secs[i] = SecondsPerHour * stats.hours[i]
          /\ \E i \in 1..Len(df) : fit.secs[i] = 0

C8_Witness ==
    /\ fit.called
    /\ Len(df) < Len(InputSeries)
    /\ MinTime(df) > MinTime(InputSeries)

\* C9: a call of fit_trend that returns yields one model; it is the linear
\* one exactly when the solver raised RuntimeError in that call, and exactly
\* when the fallback warning was emitted.
C9_OneModelPerFit ==
    /\ fit.returned =>
          /\ fit.model \in {"exponential", "linear"}
          /\ (fit.model = "linear" <=> fit.solver = "RuntimeError")
          /\ (fit.model = "linear" <=> fit.warning)
          /\ (fit.model = "linear" <=> "fit_warning" \in log)
    /\ ~fit.returned => fit.model = "none"

C9_Witness ==
    /\ fit.returned
    /\ fit.model = "linear"
    /\ "fit_warning" \in log

\* C10: for a non-empty filtered series whose values all parsed, a_guess and
\* b_guess are not negative, and c_guess is finite and positive exactly when
\* the series has two distinct timestamps; fit_trend hands these guesses to
\* the solver.
C10_GuessesInBounds ==
    (Filtered /\ df # <<>> /\ AllParsed(df)) =>
        LET g == InitialGuess(df)
        IN  /\ ~g.nan
            /\ g.a >= 0
            /\ g.b >= 0
            /\ (g.c.finite <=> ~ZeroSpan(df))
            /\ (g.c.finite => g.c.num > 0 /\ g.c.den > 0)
            /\ (fit.called => fit.p0 = g)

C10_Witness ==
    /\ fit.called
    /\ AllParsed(df)
    /\ fit.p0.b > 0
    /\ fit.p0.c.finite

============================================================================
